---- MODULE Spec2Model ----
(***************************************************************************)
(* Model of src/thread-safety-patterns-masterclass.js: the mutex-guarded   *)
(* stores ThreadSafeCounter, ThreadSafeCache, ThreadSafeInventory and the  *)
(* wrapper ThreadSafeOperation.                                            *)
(*                                                                         *)
(* A "call" is one invocation of an async method.  JavaScript runs each    *)
(* stretch of code between two awaits without interruption, so a call is   *)
(* modelled by one action per such stretch:                                *)
(*   - the issue: the synchronous prefix up to `await mutex.acquire()`,    *)
(*     in which acquire() either takes the free lock or queues the call;   *)
(*   - the critical section: the continuation after the await, i.e. the    *)
(*     try body and the `finally { release(); }` (for execute: one action  *)
(*     per stretch of the awaited operation).                              *)
(***************************************************************************)
EXTENDS Integers, Sequences, FiniteSets, TLC

\* ------------------------------------------------------------------ bounds
\* Number of calls (async method invocations) one behaviour may issue.
MaxCalls == 3
\* Largest stock initializeProduct is given, largest quantity reserveStock is given.
MaxStock == 3
MaxQty == 2
\* Number of rateLimit calls in one behaviour, and the largest limit they pass.
MaxRequests == 4
MaxLimit == 2
\* Number of POST /chat/message requests in one behaviour.
MaxPosts == 102
\* Largest maxRetries passed to fetchPreferencesWithRetry.
MaxRetries == 2
\* Number of execute calls made on one CriticalOperationBoundary.
MaxExecutes == 2
\* Longest user list passed to processUsersInBatches, and largest batchSize.
MaxUsers == 3
MaxBatch == 2

Calls == 1..MaxCalls
Stores == {"counter", "cache", "inventory", "operation"}
Products == {"PROD-1", "PROD-2"}
InitialStocks == 0..MaxStock
Quantities == -1..MaxQty
Keys == {"key1", "key2"}
CacheValues == {"value1", "value2", "undefined"}
\* JavaScript's undefined, as Map.prototype.get returns it for an absent key.
Undefined == "undefined"
NoKey == "-"
Users == {"user123", "test-user"}
Limits == 0..MaxLimit
\* The length of the rate limiter's window in ms, and the amounts by which
\* Date.now() grows from one rateLimit call to the next.
Window == 3600000
ClockSteps == {0, 1, Window - 1}
\* lastCall before the first call; nth counts the calls, limits collects the
\* limits they passed.
NoRateLimitCall ==
    [userId |-> NoKey, limit |-> 0, at |-> 0, returns |-> FALSE, nth |-> 0,
     limits |-> {}]

VARIABLES
    pc,         \* pc[t]: "idle" (not issued), "waiting" (queued in acquire),
                \* "holding" (acquire resolved, release not yet called), "done"
    call,       \* call[t]: the method invocation [store, op, key, val]
    result,     \* result[t]: how the promise returned by the call settled
    mutex,      \* mutex[s]: the AsyncMutex of store s
    counter,    \* ThreadSafeCounter.counter
    cache,      \* ThreadSafeCache.#cache (a Map: function on the present keys)
    inventory,  \* ThreadSafeInventory.inventory (a Map)
    shared,     \* the state the operations passed to execute work on
    opPos,      \* opPos[t]: position of call t in its operation's program
    opBefore,   \* opBefore[t]: `shared` as it was when t's operation began
    initStock,  \* initStock[p]: stock set by the last initializeProduct(p, _)
    ledger,     \* ledger[p]: the reserveStock(p, q) calls served since, in the
                \* order they held the lock, each as <<q, succeeded>>
    overlapped, \* whether two calls have been in flight at the same time
    served,     \* served[s]: the calls on store s in the order they released
    doneAtIssue,\* doneAtIssue[t]: for a cache call t, the calls that had already
                \* completed at the moment t was issued
    awaiting,   \* awaiting[t]: the inner execute() call the operation of call t
                \* awaits (0: none)
    \* -- WorkerThreadCounter and its worker thread
    inbox,      \* messages posted to the worker, not yet handled
    safeCounter,\* `let safeCounter` of the worker thread
    outbox,     \* counts posted by the worker, not yet delivered to the main thread
    logged,     \* counts the main thread's 'message' handler has received
    posted,     \* number of WorkerThreadCounter.increment() calls made
    \* -- unsafeIncrement
    sharedCounter, \* `let sharedCounter`
    unsafePc,   \* unsafePc[t]: "idle", "sleeping" (in the 100 ms delay), "done"
    current,    \* current[t]: `const current` of call t
    timers,     \* the calls whose setTimeout is pending, in the order they expire
    returned,   \* returned[t]: the value call t returned
    doneAtStart,\* doneAtStart[t]: the calls that had finished when t started
    \* -- rateLimit
    requests,   \* `const requests`: a Map from userId to an array of times
    now,        \* the value Date.now() returned last
    admitted,   \* admitted[u]: the times of all calls for u that returned true
    lastCall,   \* the last rateLimit call: its arguments, time and return value
    \* -- the chat of simple-code-examples.js
    clients,    \* `const clients`: the open /chat/stream responses
    messages,   \* `const messages`: each message stands as its posting number
    chatPosts,  \* number of POST /chat/message requests handled
    \* -- getUserData and fetchPreferencesWithRetry
    fetch,      \* fetch[who]: the fetchPreferencesWithRetry call made by who
    userData,   \* the getUserData call
    \* -- CriticalOperationBoundary
    boundary,   \* the boundary: fallbackStrategy and metrics
    executes,   \* executes[c]: the c-th execute call made on the boundary
    \* -- processUsersInBatches
    batches     \* the processUsersInBatches call

\* The stores' own state, and the state of the other examples.
storeVars == <<pc, call, result, mutex, counter, cache, inventory, shared,
               opPos, opBefore, initStock, ledger, overlapped, served,
               doneAtIssue>>
workerVars == <<inbox, safeCounter, outbox, logged, posted>>
unsafeVars == <<sharedCounter, unsafePc, current, timers, returned, doneAtStart>>
rateVars == <<requests, now, admitted, lastCall>>
chatVars == <<clients, messages, chatPosts>>
userDataVars == <<fetch, userData>>
boundaryVars == <<boundary, executes>>
restVars == <<chatVars, userDataVars, boundaryVars, batches>>
exceptChat == <<storeVars, awaiting, workerVars, unsafeVars, rateVars,
                userDataVars, boundaryVars, batches>>
exceptUserData == <<storeVars, awaiting, workerVars, unsafeVars, rateVars,
                    chatVars, boundaryVars, batches>>
exceptBoundary == <<storeVars, awaiting, workerVars, unsafeVars, rateVars,
                    chatVars, userDataVars, batches>>
exceptBatches == <<storeVars, awaiting, workerVars, unsafeVars, rateVars,
                   chatVars, userDataVars, boundaryVars>>
outsideStores == <<awaiting, workerVars, unsafeVars, rateVars, restVars>>

vars == <<storeVars, outsideStores>>

\* History kept for stating properties; no action reads it.
history == <<initStock, ledger>>

\* ------------------------------------------------------------ the mutex
\* The mutex class is imported from the async-mutex package (line 2) and is
\* modelled by the contract its use relies on: acquire() returns a promise of
\* the release function, resolved at once when the mutex is free and otherwise
\* when the earlier holders and waiters have released, in the order of arrival.
\* acquire() on a free mutex takes it at once; on a held one the caller queues.
AcquireGrantsAlways(m) == TRUE
AcquireGrantsIfAllFree(m) == \A s \in DOMAIN mutex : ~mutex[s].locked
AcquireGrants(m) == ~m.locked

MutexAcquire(m, t) ==
    IF AcquireGrants(m)
    THEN [m EXCEPT !.locked = TRUE]
    ELSE [m EXCEPT !.queue = Append(@, t)]

\* release() hands the lock to the longest-waiting caller, or frees it.
MutexReleaseForgetsWaiters(m) == [m EXCEPT !.locked = FALSE]
MutexRelease(m) ==
    IF m.queue = <<>>
    THEN [m EXCEPT !.locked = FALSE]
    ELSE [m EXCEPT !.queue = Tail(@)]

\* `finally { release(); }`: whatever the try block ended in.
ReleaseAfterSuccessOnly(m, res) ==
    IF res.status = "rejected" THEN m ELSE MutexRelease(m)
ReleaseAfter(m, res) == MutexRelease(m)

Pending == [status |-> "pending"]
Fulfilled(v) == [status |-> "fulfilled", value |-> v]
Rejected(e) == [status |-> "rejected", error |-> e]

NoCall == [store |-> "none", op |-> "none", key |-> NoKey, val |-> 0]

InFlight == {u \in Calls : pc[u] \in {"waiting", "holding"}}

\* `const release = await this.mutex.acquire();` as the first statement of call c.
\* Calls are numbered in the order they are issued.
Issue(t, c) ==
    /\ pc[t] = "idle"
    /\ \A u \in Calls : u < t => pc[u] # "idle"
    /\ call' = [call EXCEPT ![t] = c]
    /\ mutex' = [mutex EXCEPT ![c.store] = MutexAcquire(@, t)]
    /\ pc' = [pc EXCEPT ![t] = IF AcquireGrants(mutex[c.store])
                               THEN "holding" ELSE "waiting"]
    /\ overlapped' = (overlapped \/ InFlight # {})
    /\ doneAtIssue' = [doneAtIssue EXCEPT ![t] =
                          IF c.store = "cache"
                          THEN {u \in Calls : pc[u] = "done"} ELSE {}]
    /\ UNCHANGED <<result, served, outsideStores>>

\* `finally { release(); }` followed by the settling of the call's promise.
Finish(t, res) ==
    LET s == call[t].store
        m == mutex[s]
        m2 == ReleaseAfter(m, res)
        handed == m.queue # <<>> /\ m2.queue # m.queue
    IN  /\ mutex' = [mutex EXCEPT ![s] = m2]
        /\ pc' = [u \in Calls |->
                    IF u = t THEN "done"
                    ELSE IF handed /\ u = Head(m.queue) THEN "holding"
                    ELSE pc[u]]
        /\ result' = [result EXCEPT ![t] = res]
        /\ served' = [served EXCEPT ![s] = Append(@, t)]
        /\ UNCHANGED <<call, overlapped, doneAtIssue, outsideStores>>

Holds(t, s, op) ==
    /\ pc[t] = "holding"
    /\ call[t].store = s
    /\ call[t].op = op

\* ---------------------------------------------------- ThreadSafeCounter
\* `this.counter += 1;`
IncrementLost(c) == c
Increment(c) == c + 1

\* `return this.counter;` after the increment
IncrementReturnsStale(before, after) == before
IncrementReturns(before, after) == after

CounterIncrementCall(t) ==
    /\ Issue(t, [store |-> "counter", op |-> "increment", key |-> NoKey, val |-> 0])
    /\ UNCHANGED <<counter, cache, inventory, shared, opPos, opBefore, history>>

\* increment() as it would be with an await between the write and release().
CounterIncrementBodySuspends(t) ==
    /\ Holds(t, "counter", "increment")
    /\ IF opPos[t] = 0
       THEN /\ counter' = Increment(counter)
            /\ opPos' = [opPos EXCEPT ![t] = 1]
            /\ UNCHANGED <<pc, call, result, mutex, overlapped, served,
                           doneAtIssue, outsideStores>>
       ELSE /\ Finish(t, Fulfilled(counter))
            /\ UNCHANGED <<counter, opPos>>
    /\ UNCHANGED <<cache, inventory, shared, opBefore, history>>

CounterIncrementBody(t) ==
    /\ Holds(t, "counter", "increment")
    /\ counter' = Increment(counter)
    /\ Finish(t, Fulfilled(IncrementReturns(counter, counter')))
    /\ UNCHANGED <<cache, inventory, shared, opPos, opBefore, history>>

\* getValue() as it would be without the lock: `return this.counter;` at once.
CounterGetValueUnlocked(t) ==
    /\ pc[t] = "idle"
    /\ \A u \in Calls : u < t => pc[u] # "idle"
    /\ call' = [call EXCEPT ![t] = [store |-> "counter", op |-> "getValue",
                                    key |-> NoKey, val |-> 0]]
    /\ pc' = [pc EXCEPT ![t] = "done"]
    /\ result' = [result EXCEPT ![t] = Fulfilled(counter)]
    /\ served' = [served EXCEPT !["counter"] = Append(@, t)]
    /\ UNCHANGED <<mutex, counter, cache, inventory, shared, opPos, opBefore,
                   history, overlapped, doneAtIssue, outsideStores>>

CounterGetValueCall(t) ==
    /\ Issue(t, [store |-> "counter", op |-> "getValue", key |-> NoKey, val |-> 0])
    /\ UNCHANGED <<counter, cache, inventory, shared, opPos, opBefore, history>>

CounterGetValueBody(t) ==
    /\ Holds(t, "counter", "getValue")
    /\ Finish(t, Fulfilled(counter))
    /\ UNCHANGED <<counter, cache, inventory, shared, opPos, opBefore, history>>

\* -------------------------------------------------- ThreadSafeInventory
\* Map.prototype.set
MapSetKeepsOld(m, k, v) ==
    [x \in DOMAIN m \cup {k} |-> IF x \in DOMAIN m THEN m[x] ELSE v]
MapSetAlone(m, k, v) == [x \in {k} |-> v]
MapSet(m, k, v) == [x \in DOMAIN m \cup {k} |-> IF x = k THEN v ELSE m[x]]

\* `this.inventory.get(productId) ?? 0`
CurrentStock(inv, p) == IF p \in DOMAIN inv THEN inv[p] ELSE 0

\* `if (currentStock < quantity) throw new Error('Insufficient stock')`
InsufficientNever(currentStock, quantity) == FALSE
InsufficientOffByOne(currentStock, quantity) == currentStock <= quantity
Insufficient(currentStock, quantity) == currentStock < quantity

\* `currentStock - quantity`
RemainingIgnoresQuantity(currentStock, quantity) == currentStock - 1
Remaining(currentStock, quantity) == currentStock - quantity

\* The inventory map reserveStock(p, q) leaves behind: the check comes before
\* the only write.
ReserveStockWritesFirst(inv, p, q) ==
    MapSet(inv, p, Remaining(CurrentStock(inv, p), q))
ReserveStockMap(inv, p, q) ==
    IF Insufficient(CurrentStock(inv, p), q)
    THEN inv
    ELSE MapSet(inv, p, Remaining(CurrentStock(inv, p), q))

\* `new Error('Insufficient stock')`: an instance of the built-in Error class.
InsufficientStockError == [name |-> "Error", message |-> "Insufficient stock"]

\* What the promise of reserveStock(p, q) settles to.
ReserveStockResult(inv, p, q) ==
    IF Insufficient(CurrentStock(inv, p), q)
    THEN Rejected(InsufficientStockError)
    ELSE Fulfilled(TRUE)

InitializeProductCall(t, p, stock) ==
    /\ Issue(t, [store |-> "inventory", op |-> "initializeProduct",
                 key |-> p, val |-> stock])
    /\ UNCHANGED <<counter, cache, inventory, shared, opPos, opBefore, history>>

InitializeProductBody(t) ==
    /\ Holds(t, "inventory", "initializeProduct")
    /\ inventory' = MapSet(inventory, call[t].key, call[t].val)
    /\ Finish(t, Fulfilled(Undefined))
    /\ initStock' = [initStock EXCEPT ![call[t].key] = call[t].val]
    /\ ledger' = [ledger EXCEPT ![call[t].key] = <<>>]
    /\ UNCHANGED <<counter, cache, shared, opPos, opBefore>>

ReserveStockCall(t, p, q) ==
    /\ Issue(t, [store |-> "inventory", op |-> "reserveStock",
                 key |-> p, val |-> q])
    /\ UNCHANGED <<counter, cache, inventory, shared, opPos, opBefore, history>>

ReserveStockBody(t) ==
    LET p == call[t].key
        q == call[t].val
        res == ReserveStockResult(inventory, p, q)
    IN  /\ Holds(t, "inventory", "reserveStock")
        /\ inventory' = ReserveStockMap(inventory, p, q)
        /\ Finish(t, res)
        /\ ledger' = [ledger EXCEPT
                        ![p] = Append(@, <<q, res.status = "fulfilled">>)]
        /\ UNCHANGED <<counter, cache, shared, opPos, opBefore, initStock>>

GetStockCall(t, p) ==
    /\ Issue(t, [store |-> "inventory", op |-> "getStock", key |-> p, val |-> 0])
    /\ UNCHANGED <<counter, cache, inventory, shared, opPos, opBefore, history>>

GetStockBody(t) ==
    /\ Holds(t, "inventory", "getStock")
    /\ Finish(t, Fulfilled(CurrentStock(inventory, call[t].key)))
    /\ UNCHANGED <<counter, cache, inventory, shared, opPos, opBefore, history>>

NextInventory ==
    \E t \in Calls :
        \/ \E p \in Products, stock \in InitialStocks :
               InitializeProductCall(t, p, stock)
        \/ InitializeProductBody(t)
        \/ \E p \in Products, q \in Quantities : ReserveStockCall(t, p, q)
        \/ ReserveStockBody(t)
        \/ \E p \in Products : GetStockCall(t, p)
        \/ GetStockBody(t)

\* ------------------------------------------------------ ThreadSafeCache
\* Map.prototype.get: undefined for an absent key
MapGet(m, k) == IF k \in DOMAIN m THEN m[k] ELSE Undefined

\* Map.prototype.delete: the map without k
MapDeleteNothing(m, k) == m
MapDelete(m, k) == [x \in DOMAIN m \ {k} |-> m[x]]

CacheSetCall(t, k, v) ==
    /\ Issue(t, [store |-> "cache", op |-> "set", key |-> k, val |-> v])
    /\ UNCHANGED <<counter, cache, inventory, shared, opPos, opBefore, history>>

CacheSetBody(t) ==
    /\ Holds(t, "cache", "set")
    /\ cache' = MapSet(cache, call[t].key, call[t].val)
    /\ Finish(t, Fulfilled(Undefined))
    /\ UNCHANGED <<counter, inventory, shared, opPos, opBefore, history>>

CacheGetCall(t, k) ==
    /\ Issue(t, [store |-> "cache", op |-> "get", key |-> k, val |-> Undefined])
    /\ UNCHANGED <<counter, cache, inventory, shared, opPos, opBefore, history>>

CacheGetBody(t) ==
    /\ Holds(t, "cache", "get")
    /\ Finish(t, Fulfilled(MapGet(cache, call[t].key)))
    /\ UNCHANGED <<counter, cache, inventory, shared, opPos, opBefore, history>>

CacheDeleteCall(t, k) ==
    /\ Issue(t, [store |-> "cache", op |-> "delete", key |-> k, val |-> Undefined])
    /\ UNCHANGED <<counter, cache, inventory, shared, opPos, opBefore, history>>

CacheDeleteBody(t) ==
    /\ Holds(t, "cache", "delete")
    /\ cache' = MapDelete(cache, call[t].key)
    /\ Finish(t, Fulfilled(call[t].key \in DOMAIN cache))
    /\ UNCHANGED <<counter, inventory, shared, opPos, opBefore, history>>

NextCache ==
    \E t \in Calls :
        \/ \E k \in Keys, v \in CacheValues : CacheSetCall(t, k, v)
        \/ CacheSetBody(t)
        \/ \E k \in Keys : CacheGetCall(t, k)
        \/ CacheGetBody(t)
        \/ \E k \in Keys : CacheDeleteCall(t, k)
        \/ CacheDeleteBody(t)

\* -------------------------------------------------- ThreadSafeOperation
\* The operations handed to execute(): async functions over `shared`.  Each is
\* a program of "write" (shared += 1), "await" (the operation suspends), and
\* a final "return" (of the value of shared) or "throw" (of a new Error).
Programs ==
    << <<"return">>,
       <<"write", "return">>,
       <<"throw">>,
       <<"write", "throw">>,
       <<"write", "await", "write", "return">>,
       <<"write", "await", "throw">> >>

\* The error object the operation of call t throws: a fresh object per call.
ErrorOf(t) == [thrownBy |-> t]

\* Runs program prog from position pos to its next await, return or throw.
RECURSIVE RunStretch(_, _, _)
RunStretch(prog, pos, sh) ==
    LET ins == prog[pos + 1]
    IN  IF ins = "write" THEN RunStretch(prog, pos + 1, sh + 1)
        ELSE [pos |-> pos + 1, shared |-> sh, out |-> ins]

\* `return await operation()` / `catch (error) { console.error(..); throw error; }`
ExecuteOutcomeSwallows(t, out, value) ==
    IF out = "throw" THEN Fulfilled("null") ELSE Fulfilled(value)
ExecuteOutcome(t, out, value) ==
    IF out = "throw" THEN Rejected(ErrorOf(t)) ELSE Fulfilled(value)

\* execute() as it would be without `await this.mutex.acquire()`.
ExecuteCallUnlocked(t, i) ==
    /\ pc[t] = "idle"
    /\ \A u \in Calls : u < t => pc[u] # "idle"
    /\ call' = [call EXCEPT ![t] = [store |-> "operation", op |-> "execute",
                                    key |-> NoKey, val |-> i]]
    /\ pc' = [pc EXCEPT ![t] = "holding"]
    /\ overlapped' = (overlapped \/ InFlight # {})
    /\ UNCHANGED <<result, mutex, served, doneAtIssue, outsideStores, counter,
                   cache, inventory, shared, opPos, opBefore, history>>

ExecuteCall(t, i) ==
    /\ Issue(t, [store |-> "operation", op |-> "execute", key |-> NoKey, val |-> i])
    /\ UNCHANGED <<counter, cache, inventory, shared, opPos, opBefore, history>>

\* One uninterrupted stretch of `await operation()`; the last one runs on into
\* the catch and finally blocks.
ExecuteStep(t) ==
    LET r == RunStretch(Programs[call[t].val], opPos[t], shared)
    IN  /\ Holds(t, "operation", "execute")
        /\ awaiting[t] # 0 => pc[awaiting[t]] = "done"
        /\ shared' = r.shared
        /\ opPos' = [opPos EXCEPT ![t] = r.pos]
        /\ opBefore' = IF opPos[t] = 0 THEN [opBefore EXCEPT ![t] = shared]
                       ELSE opBefore
        /\ IF r.out = "await"
           THEN UNCHANGED <<pc, call, result, mutex, overlapped, served,
                            doneAtIssue, outsideStores>>
           ELSE Finish(t, ExecuteOutcome(t, r.out, r.shared))
        /\ UNCHANGED <<counter, cache, inventory, history>>

NextOperation ==
    \E t \in Calls :
        \/ \E i \in DOMAIN Programs : ExecuteCall(t, i)
        \/ ExecuteStep(t)

\* An operation that begins with `await this.execute(inner)` on the instance
\* that runs it: in its first stretch call t, which holds the lock, issues the
\* inner call c (with program i as its operation) and suspends until c settles.
ExecuteReenter(t, c, i) ==
    /\ Holds(t, "operation", "execute")
    /\ opPos[t] = 0 /\ awaiting[t] = 0
    /\ pc[c] = "idle"
    /\ \A u \in Calls : u < c => pc[u] # "idle"
    /\ awaiting' = [awaiting EXCEPT ![t] = c]
    /\ call' = [call EXCEPT ![c] = [store |-> "operation", op |-> "execute",
                                    key |-> NoKey, val |-> i]]
    /\ mutex' = [mutex EXCEPT !["operation"] = MutexAcquire(@, c)]
    /\ pc' = [pc EXCEPT ![c] = IF AcquireGrants(mutex["operation"])
                               THEN "holding" ELSE "waiting"]
    /\ overlapped' = TRUE
    /\ UNCHANGED <<result, served, doneAtIssue, counter, cache, inventory,
                   shared, opPos, opBefore, history>>
    /\ UNCHANGED <<workerVars, unsafeVars, rateVars, restVars>>

NextReentrant ==
    \/ NextOperation
    \/ \E t, c \in Calls, i \in DOMAIN Programs : ExecuteReenter(t, c, i)

\* -------------------------------------------------- WorkerThreadCounter
\* `safeCounter++`
SafeCounterStays(c) == c
SafeCounterIncrement(c) == c + 1

\* increment(): `this.worker.postMessage('INCREMENT');`
WorkerIncrement ==
    /\ posted < MaxCalls
    /\ posted' = posted + 1
    /\ inbox' = Append(inbox, "INCREMENT")
    /\ UNCHANGED <<safeCounter, outbox, logged>>
    /\ UNCHANGED <<storeVars, awaiting, unsafeVars, rateVars, restVars>>

\* The worker's `parentPort.on('message', ...)` handler, run once per message
\* in the order the messages were posted.
WorkerOnMessage ==
    /\ inbox # <<>>
    /\ inbox' = Tail(inbox)
    /\ IF Head(inbox) = "INCREMENT"
       THEN /\ safeCounter' = SafeCounterIncrement(safeCounter)
            /\ outbox' = Append(outbox, safeCounter')
       ELSE UNCHANGED <<safeCounter, outbox>>
    /\ UNCHANGED <<logged, posted>>
    /\ UNCHANGED <<storeVars, awaiting, unsafeVars, rateVars, restVars>>

\* The main thread's `this.worker.on('message', (count) => ...)` handler.
MainOnMessage ==
    /\ outbox # <<>>
    /\ logged' = Append(logged, Head(outbox))
    /\ outbox' = Tail(outbox)
    /\ UNCHANGED <<inbox, safeCounter, posted>>
    /\ UNCHANGED <<storeVars, awaiting, unsafeVars, rateVars, restVars>>

NextWorker == WorkerIncrement \/ WorkerOnMessage \/ MainOnMessage

\* ------------------------------------------------------ unsafeIncrement
\* `sharedCounter = current + 1;`
UnsafeWriteFresh(cur, sh) == sh + 1
UnsafeWrite(cur, sh) == cur + 1

\* The stretch up to the await: `const current = sharedCounter;` and the
\* setTimeout of 100 ms.  Calls are numbered in the order they start.
UnsafeStart(t) ==
    /\ unsafePc[t] = "idle"
    /\ \A u \in Calls : u < t => unsafePc[u] # "idle"
    /\ current' = [current EXCEPT ![t] = sharedCounter]
    /\ timers' = Append(timers, t)
    /\ unsafePc' = [unsafePc EXCEPT ![t] = "sleeping"]
    /\ doneAtStart' = [doneAtStart EXCEPT
                          ![t] = {u \in Calls : unsafePc[u] = "done"}]
    /\ UNCHANGED <<sharedCounter, returned>>
    /\ UNCHANGED <<storeVars, awaiting, workerVars, rateVars, restVars>>

\* The stretch after the await.  The timeouts all last 100 ms, so they expire
\* in the order they were set.
UnsafeResume(t) ==
    /\ timers # <<>> /\ Head(timers) = t
    /\ timers' = Tail(timers)
    /\ sharedCounter' = UnsafeWrite(current[t], sharedCounter)
    /\ returned' = [returned EXCEPT ![t] = sharedCounter']
    /\ unsafePc' = [unsafePc EXCEPT ![t] = "done"]
    /\ UNCHANGED <<current, doneAtStart>>
    /\ UNCHANGED <<storeVars, awaiting, workerVars, rateVars, restVars>>

NextUnsafe == \E t \in Calls : UnsafeStart(t) \/ UnsafeResume(t)

\* ------------------------------------------------------------ rateLimit
\* `requests.get(userId) || []`
UserRequests(reqs, userId) == IF userId \in DOMAIN reqs THEN reqs[userId] ELSE <<>>

\* `userRequests.filter(time => now - time < 3600000)`
IsRecentInclusive(n, time) == n - time <= Window
IsRecent(n, time) == n - time < Window
Recent(userRequests, n) == SelectSeq(userRequests, LAMBDA time : IsRecent(n, time))

\* `if (recent.length >= limit) { return false; }`
OverLimit(recent, limit) == Len(recent) >= limit

\* `recent.push(now); requests.set(userId, recent);`, reached only when the
\* call is admitted.
RequestsAfterStoresAlways(reqs, userId, recent, n, admit) ==
    MapSet(reqs, userId, IF admit THEN Append(recent, n) ELSE recent)
RequestsAfter(reqs, userId, recent, n, admit) ==
    IF admit THEN MapSet(reqs, userId, Append(recent, n)) ELSE reqs

\* One call rateLimit(userId, limit), made when the clock has grown by step.
RateLimit(userId, limit, step) ==
    LET n == now + step
        recent == Recent(UserRequests(requests, userId), n)
        admit == ~OverLimit(recent, limit)
    IN  /\ lastCall.nth < MaxRequests
        /\ now' = n
        /\ requests' = RequestsAfter(requests, userId, recent, n, admit)
        /\ admitted' = IF admit THEN [admitted EXCEPT ![userId] = Append(@, n)]
                       ELSE admitted
        /\ lastCall' = [userId |-> userId, limit |-> limit, at |-> n,
                        returns |-> admit, nth |-> lastCall.nth + 1,
                        limits |-> lastCall.limits \cup {limit}]
        /\ UNCHANGED <<storeVars, awaiting, workerVars, unsafeVars, restVars>>

NextRateLimit ==
    \E userId \in Users, limit \in Limits, step \in ClockSteps :
        RateLimit(userId, limit, step)

\* ----------------------------------------------------------------- chat
\* The response objects of the /chat/stream requests.
Responses == {"res1", "res2"}
\* `if (messages.length > 100)`
MessageCap == 100

\* `messages.shift()`
ShiftDropsNewest(msgs) == SubSeq(msgs, 1, Len(msgs) - 1)
Shift(msgs) == Tail(msgs)

\* `messages.push(message); if (messages.length > 100) { messages.shift(); }`
PushMessage(msgs, message) ==
    LET pushed == Append(msgs, message)
    IN  IF Len(pushed) > MessageCap THEN Shift(pushed) ELSE pushed

\* GET /chat/stream: the response joins the clients (and is sent the last 10
\* messages, which changes no state of the program).
ChatStream(res) ==
    /\ res \notin clients
    /\ clients' = clients \cup {res}
    /\ UNCHANGED <<messages, chatPosts>>
    /\ UNCHANGED exceptChat

\* `req.on('close', () => clients.delete(res))`
ChatClose(res) ==
    /\ res \in clients
    /\ clients' = clients \ {res}
    /\ UNCHANGED <<messages, chatPosts>>
    /\ UNCHANGED exceptChat

\* POST /chat/message: the message is appended, the list trimmed, and the
\* message written to every client; the clients whose write throws (broken)
\* are deleted.
ChatPost(broken) ==
    /\ chatPosts < MaxPosts
    /\ chatPosts' = chatPosts + 1
    /\ messages' = PushMessage(messages, chatPosts')
    /\ clients' = clients \ broken
    /\ UNCHANGED exceptChat

NextChat ==
    \/ \E res \in Responses : ChatStream(res) \/ ChatClose(res)
    \/ \E broken \in SUBSET clients : ChatPost(broken)

\* ----------------------------------- getUserData, fetchPreferencesWithRetry
\* Who calls fetchPreferencesWithRetry: a caller of its own, or getUserData.
Callers == {"direct", "getUserData"}
RetryCounts == 0..MaxRetries
\* `maxRetries = 2`
DefaultMaxRetries == 2
UserIds == {"", "123"}

\* `new UserDataError(message, code, originalError)`
UserDataError(code, originalError) ==
    [name |-> "UserDataError", code |-> code, originalError |-> originalError]
\* The error a failing lookup throws: a fresh object per lookup.
LookupError(model, nth) == [name |-> "Error", thrownBy |-> model, nth |-> nth]
\* What a lookup that succeeds resolves to.
StoredPreferences == [theme |-> "dark"]
StoredOrders == <<"order1">>
StoredUser == [id |-> "123"]
\* getDefaultPreferences()
DefaultPreferences ==
    [theme |-> "light", notifications |-> TRUE, language |-> "en"]

\* attempts: how each Preferences.findByUserId call so far ended (TRUE:
\* resolved), in order.
NoFetch ==
    [pc |-> "idle", maxRetries |-> 0, attempt |-> 0, calls |-> 0,
     lastError |-> Undefined, attempts |-> <<>>, outcome |-> Pending]
\* lookups counts the User and Order lookups made; userSettled and ordersOk
\* record how they ended.
NoUserData ==
    [pc |-> "idle", userId |-> "", lookups |-> 0, user |-> Undefined,
     orders |-> Undefined, outcome |-> Pending, userSettled |-> "no",
     ordersOk |-> FALSE]

\* `if (!user)`, for what User.findById resolved to
UserMissingNever(how) == FALSE
UserMissing(how) == how = "null"

\* `orders = await Order.findByUserId(userId)` / `catch { orders = []; }`
OrdersOrEmpty(ok) == IF ok THEN StoredOrders ELSE <<>>

\* `for (let attempt = 0; attempt <= maxRetries; attempt++)`
LoopContinuesStrict(attempt, maxRetries) == attempt < maxRetries
LoopContinues(attempt, maxRetries) == attempt <= maxRetries

\* `if (attempt < maxRetries)`: whether the failed attempt is followed by a delay
BacksOff(attempt, maxRetries) == attempt < maxRetries

\* The call up to its first await: the loop is entered and the first lookup
\* is under way (maxRetries >= 0).
FetchBegun(maxRetries) ==
    [pc |-> "lookup", maxRetries |-> maxRetries, attempt |-> 0, calls |-> 1,
     lastError |-> Undefined, attempts |-> <<>>, outcome |-> Pending]

\* `attempt++` and the loop test, after a failed attempt: another lookup, or
\* the throw after the loop.
FetchNextAttempt(f) ==
    IF LoopContinues(f.attempt + 1, f.maxRetries)
    THEN [f EXCEPT !.pc = "lookup", !.attempt = @ + 1, !.calls = @ + 1]
    ELSE [f EXCEPT !.pc = "done", !.attempt = @ + 1,
                   !.outcome = Rejected(UserDataError("PREFERENCES_ERROR",
                                                      f.lastError))]

\* fetchPreferencesWithRetry(userId, maxRetries) called on its own.
FetchCall(maxRetries) ==
    /\ fetch["direct"].pc = "idle"
    /\ fetch' = [fetch EXCEPT !["direct"] = FetchBegun(maxRetries)]
    /\ UNCHANGED userData
    /\ UNCHANGED exceptUserData

\* The lookup of the current attempt settles: `return await ...` or the catch
\* block up to its await (or, after the last attempt, on to the throw).
FetchLookupSettles(who, ok) ==
    LET f == fetch[who]
        tried == [f EXCEPT !.attempts = Append(@, ok)]
        failed == [tried EXCEPT
                     !.lastError = LookupError("Preferences", f.calls)]
    IN  /\ f.pc = "lookup"
        /\ fetch' = [fetch EXCEPT ![who] =
               IF ok
               THEN [tried EXCEPT !.pc = "done",
                                  !.outcome = Fulfilled(StoredPreferences)]
               ELSE IF BacksOff(f.attempt, f.maxRetries)
                    THEN [failed EXCEPT !.pc = "backoff"]
                    ELSE FetchNextAttempt(failed)]
        /\ UNCHANGED userData
        /\ UNCHANGED exceptUserData

\* The backoff delay ends: the loop goes on to its next attempt.
FetchBackoffEnds(who) ==
    /\ fetch[who].pc = "backoff"
    /\ fetch' = [fetch EXCEPT ![who] = FetchNextAttempt(@)]
    /\ UNCHANGED userData
    /\ UNCHANGED exceptUserData

\* getUserData(userId) up to its first await.
GetUserDataCall(userId) ==
    /\ userData.pc = "idle"
    /\ userData' =
          IF userId = ""
          THEN [NoUserData EXCEPT
                  !.pc = "done", !.userId = userId,
                  !.outcome = Rejected(UserDataError("INVALID_INPUT", Undefined))]
          ELSE [NoUserData EXCEPT !.pc = "user", !.userId = userId,
                                  !.lookups = 1]
    /\ UNCHANGED fetch
    /\ UNCHANGED exceptUserData

\* `User.findById(userId)` settles: to a user, to null, or with an error.
UserLookupSettles(how) ==
    /\ userData.pc = "user"
    /\ userData' =
          CASE how # "throws" /\ ~UserMissing(how) ->
                 [userData EXCEPT
                    !.pc = "orders", !.lookups = @ + 1, !.userSettled = how,
                    !.user = IF how = "found" THEN StoredUser ELSE Undefined]
            [] how # "throws" /\ UserMissing(how) ->
                 [userData EXCEPT
                    !.pc = "done", !.userSettled = how,
                    !.outcome = Rejected(UserDataError("USER_NOT_FOUND", Undefined))]
            [] how = "throws" ->
                 [userData EXCEPT
                    !.pc = "done", !.userSettled = how,
                    !.outcome = Rejected(UserDataError("DATABASE_ERROR",
                                                       LookupError("User", 1)))]
    /\ UNCHANGED fetch
    /\ UNCHANGED exceptUserData

\* `Order.findByUserId(userId)` settles; getUserData goes on to call
\* fetchPreferencesWithRetry(userId).
OrdersLookupSettles(ok) ==
    /\ userData.pc = "orders"
    /\ userData' = [userData EXCEPT
                      !.pc = "preferences", !.ordersOk = ok,
                      !.orders = OrdersOrEmpty(ok)]
    /\ fetch' = [fetch EXCEPT !["getUserData"] = FetchBegun(DefaultMaxRetries)]
    /\ UNCHANGED exceptUserData

\* `await fetchPreferencesWithRetry(userId)` settles and getUserData returns.
PreferencesSettle ==
    LET out == fetch["getUserData"].outcome
        preferences == IF out.status = "fulfilled" THEN out.value
                       ELSE DefaultPreferences
    IN  /\ userData.pc = "preferences"
        /\ fetch["getUserData"].pc = "done"
        /\ userData' = [userData EXCEPT
                          !.pc = "done",
                          !.outcome = Fulfilled([user |-> userData.user,
                                                 orders |-> userData.orders,
                                                 preferences |-> preferences])]
        /\ UNCHANGED fetch
        /\ UNCHANGED exceptUserData

NextUserData ==
    \/ \E maxRetries \in RetryCounts : FetchCall(maxRetries)
    \/ \E who \in Callers, ok \in BOOLEAN : FetchLookupSettles(who, ok)
    \/ \E who \in Callers : FetchBackoffEnds(who)
    \/ \E userId \in UserIds : GetUserDataCall(userId)
    \/ \E how \in {"found", "null", "throws"} : UserLookupSettles(how)
    \/ \E ok \in BOOLEAN : OrdersLookupSettles(ok)
    \/ PreferencesSettle

\* ------------------------------------------- CriticalOperationBoundary
ExecuteCalls == 1..MaxExecutes
\* The strategies the constructor is given; "log" stands for any string the
\* switch has no case for.
Strategies == {"throw", "fallback", "retry", "log"}
\* `return this.executeWithRetry(operation, 3)`
BoundaryRetries == 3

NoBoundary ==
    [constructed |-> FALSE, fallbackStrategy |-> "throw",
     metrics |-> [attempts |-> 0, failures |-> 0, lastFailure |-> "null"]]

\* An execute call: where it stands ("idle": not made; "operation": in the
\* await of line 207; "fallback": line 221; "retry": line 242; "delay": line
\* 246; "done"), whether a fallback was passed, `i` and `lastError` of
\* executeWithRetry, how each invocation of the operation ended so far, the
\* number of invocations begun, and how the returned promise settled.
NoExecute ==
    [pc |-> "idle", hasFallback |-> FALSE, i |-> 0, lastError |-> "none",
     tries |-> <<>>, invoked |-> 0, outcome |-> Pending]

\* A promise fulfilled with undefined: it carries no value.
FulfilledUndefined == [status |-> "fulfilled"]

\* `new CriticalOperationBoundary(operationName, fallbackStrategy)`
BoundaryConstruct(fallbackStrategy) ==
    /\ ~boundary.constructed
    /\ boundary' = [boundary EXCEPT !.constructed = TRUE,
                                    !.fallbackStrategy = fallbackStrategy]
    /\ UNCHANGED executes
    /\ UNCHANGED exceptBoundary

\* `i < maxRetries`
RetryContinuesInclusive(i, maxRetries) == i <= maxRetries
RetryContinues(i, maxRetries) == i < maxRetries

\* executeWithRetry never touches the metrics.
MetricsAfterRetryFailureCounted(m) == [m EXCEPT !.failures = @ + 1]
MetricsAfterRetryFailure(m) == m

\* The loop of executeWithRetry at its test: the next invocation of the
\* operation, or `throw lastError`.
RetryLoop(e, maxRetries) ==
    IF RetryContinues(e.i, maxRetries)
    THEN [e EXCEPT !.pc = "retry", !.invoked = @ + 1]
    ELSE [e EXCEPT !.pc = "done", !.outcome = Rejected(e.lastError)]

\* execute(operation, fallback) up to its first await.
BoundaryExecute(c, hasFallback) ==
    /\ boundary.constructed
    /\ executes[c].pc = "idle"
    /\ \A b \in ExecuteCalls : b < c => executes[b].pc # "idle"
    /\ boundary' = [boundary EXCEPT !.metrics.attempts = @ + 1]
    /\ executes' = [executes EXCEPT ![c] =
                        [NoExecute EXCEPT !.pc = "operation",
                                          !.hasFallback = hasFallback,
                                          !.invoked = 1]]
    /\ UNCHANGED exceptBoundary

\* What the catch block of execute does after recording the failure.
AfterFailure(e, fallbackStrategy) ==
    CASE fallbackStrategy = "fallback" /\ e.hasFallback ->
            [e EXCEPT !.pc = "fallback"]
      [] fallbackStrategy = "fallback" /\ ~e.hasFallback ->
            [e EXCEPT !.pc = "done", !.outcome = FulfilledUndefined]
      [] fallbackStrategy = "retry" ->
            RetryLoop([e EXCEPT !.i = 0], BoundaryRetries)
      [] OTHER ->
            [e EXCEPT !.pc = "done",
                      !.outcome = Rejected("CriticalOperationError")]

\* The operation awaited at line 207 settles.
OperationSettles(c, ok) ==
    /\ executes[c].pc = "operation"
    /\ LET e == [executes[c] EXCEPT !.tries = Append(@, ok)]
       IN IF ok
          THEN /\ executes' = [executes EXCEPT ![c] =
                     [e EXCEPT !.pc = "done",
                               !.outcome = Fulfilled([success |-> TRUE,
                                                      data |-> "result"])]]
               /\ UNCHANGED boundary
          ELSE /\ boundary' = [boundary EXCEPT
                                  !.metrics.failures = @ + 1,
                                  !.metrics.lastFailure = "Date"]
               /\ executes' = [executes EXCEPT ![c] =
                     AfterFailure([e EXCEPT !.lastError = "OperationError"],
                                  boundary.fallbackStrategy)]
    /\ UNCHANGED exceptBoundary

\* The fallback awaited at line 221 settles.
FallbackSettles(c, ok) ==
    /\ executes[c].pc = "fallback"
    /\ executes' = [executes EXCEPT ![c] =
          [@ EXCEPT !.pc = "done",
                    !.outcome =
                        IF ok
                        THEN Fulfilled([success |-> FALSE,
                                        data |-> "fallbackResult",
                                        usedFallback |-> TRUE])
                        ELSE Rejected("FallbackError")]]
    /\ UNCHANGED boundary
    /\ UNCHANGED exceptBoundary

\* The operation awaited at line 242 settles.
RetrySettles(c, ok) ==
    /\ executes[c].pc = "retry"
    /\ LET e == [executes[c] EXCEPT !.tries = Append(@, ok)]
       IN IF ok
          THEN /\ executes' = [executes EXCEPT ![c] =
                     [e EXCEPT !.pc = "done",
                               !.outcome = Fulfilled([success |-> TRUE,
                                                      data |-> "result"])]]
               /\ UNCHANGED boundary
          ELSE /\ executes' = [executes EXCEPT ![c] =
                     [e EXCEPT !.pc = "delay",
                               !.lastError = "OperationError"]]
               /\ boundary' = [boundary EXCEPT
                                  !.metrics = MetricsAfterRetryFailure(@)]
    /\ UNCHANGED exceptBoundary

\* The delay of line 246 ends: `i++` and the loop test.
RetryDelayEnds(c) ==
    /\ executes[c].pc = "delay"
    /\ executes' = [executes EXCEPT ![c] =
          RetryLoop([@ EXCEPT !.i = @ + 1], BoundaryRetries)]
    /\ UNCHANGED boundary
    /\ UNCHANGED exceptBoundary

NextBoundary ==
    \/ \E fallbackStrategy \in Strategies : BoundaryConstruct(fallbackStrategy)
    \/ \E c \in ExecuteCalls, hasFallback \in BOOLEAN :
          BoundaryExecute(c, hasFallback)
    \/ \E c \in ExecuteCalls, ok \in BOOLEAN : OperationSettles(c, ok)
    \/ \E c \in ExecuteCalls, ok \in BOOLEAN : FallbackSettles(c, ok)
    \/ \E c \in ExecuteCalls, ok \in BOOLEAN : RetrySettles(c, ok)
    \/ \E c \in ExecuteCalls : RetryDelayEnds(c)

\* ------------------------------------------------ processUsersInBatches
\* The user lists are [0], [0, 1], ...: a user stands as its index in the list.
UserCounts == 0..MaxUsers
BatchSizes == -MaxBatch..MaxBatch
\* Below this index every slice of every list is empty.
MinIndex == -(MaxUsers + MaxBatch)

\* The processUsersInBatches call: where it stands ("idle": not called;
\* "loop": at the test of the for loop; "awaiting": in the await of line 401;
\* "done"), users.length, batchSize, `i`, `batch`, the processUser calls
\* whose 100 ms delay is pending (in the order they expire), the number of
\* processUser calls begun and completed for each user, and the calls that
\* were pending when the calls of the current batch were made.
NoBatches ==
    [pc |-> "idle", length |-> 0, batchSize |-> 0, i |-> 0, batch |-> <<>>,
     timers |-> <<>>, begun |-> <<>>, completed |-> <<>>,
     pendingAtStart |-> <<>>]

\* The index Array.prototype.slice works with for the argument k.
RelativeIndex(k, length) ==
    IF k < 0
    THEN IF length + k < 0 THEN 0 ELSE length + k
    ELSE IF k > length THEN length ELSE k

\* `users.slice(start, end)`, as the sequence of the indexes it takes.
Slice(length, start, end) ==
    LET from == RelativeIndex(start, length)
        to == RelativeIndex(end, length)
    IN IF from < to THEN [k \in 1..(to - from) |-> from + k - 1] ELSE <<>>

Range(seq) == {seq[k] : k \in DOMAIN seq}

\* `processUsersInBatches(users, batchSize)` up to the for loop.
ProcessUsersInBatches(length, batchSize) ==
    /\ batches.pc = "idle"
    /\ batches' = [NoBatches EXCEPT !.pc = "loop", !.length = length,
                                    !.batchSize = batchSize, !.i = 0,
                                    !.begun = [k \in 1..length |-> 0],
                                    !.completed = [k \in 1..length |-> 0]]
    /\ UNCHANGED exceptBatches

\* The loop test and, if it holds, lines 400-401: a processUser call for each
\* user of the batch, each running up to its `await simulateDelay(100)`.
BatchLoop ==
    /\ batches.pc = "loop"
    /\ IF batches.i < batches.length
       THEN LET batch == Slice(batches.length, batches.i,
                               batches.i + batches.batchSize)
            IN batches' = [batches EXCEPT
                              !.pc = "awaiting",
                              !.batch = batch,
                              !.pendingAtStart = batches.timers,
                              !.timers = @ \o batch,
                              !.begun = [k \in DOMAIN @ |->
                                            IF k - 1 \in Range(batch)
                                            THEN @[k] + 1 ELSE @[k]]]
       ELSE batches' = [batches EXCEPT !.pc = "done"]
    /\ UNCHANGED exceptBatches

\* The delay of the oldest pending processUser call ends; the call returns.
ProcessUserResumes ==
    /\ batches.timers # <<>>
    /\ LET user == Head(batches.timers)
       IN batches' = [batches EXCEPT !.timers = Tail(@),
                                     !.completed[user + 1] = @ + 1]
    /\ UNCHANGED exceptBatches

\* Promise.all resolves once every call of the batch has; `i += batchSize`.
BatchResumes ==
    /\ batches.pc = "awaiting"
    /\ Range(batches.batch) \cap Range(batches.timers) = {}
    /\ batches.i + batches.batchSize >= MinIndex
    /\ batches' = [batches EXCEPT !.pc = "loop",
                                  !.i = @ + batches.batchSize]
    /\ UNCHANGED exceptBatches

NextBatches ==
    \/ \E length \in UserCounts, batchSize \in BatchSizes :
          ProcessUsersInBatches(length, batchSize)
    \/ BatchLoop
    \/ ProcessUserResumes
    \/ BatchResumes

\* -------------------------------------------------------- initial state
EmptyMap == [k \in {} |-> 0]

Init ==
    /\ pc = [t \in Calls |-> "idle"]
    /\ call = [t \in Calls |-> NoCall]
    /\ result = [t \in Calls |-> Pending]
    /\ mutex = [s \in Stores |-> [locked |-> FALSE, queue |-> <<>>]]
    /\ counter = 0
    /\ cache = EmptyMap
    /\ inventory = EmptyMap
    /\ shared = 0
    /\ opPos = [t \in Calls |-> 0]
    /\ opBefore = [t \in Calls |-> 0]
    /\ initStock = [p \in Products |-> 0]
    /\ ledger = [p \in Products |-> <<>>]
    /\ overlapped = FALSE
    /\ served = [s \in Stores |-> <<>>]
    /\ doneAtIssue = [t \in Calls |-> {}]
    /\ awaiting = [t \in Calls |-> 0]
    /\ inbox = <<>>
    /\ safeCounter = 0
    /\ outbox = <<>>
    /\ logged = <<>>
    /\ posted = 0
    /\ sharedCounter = 0
    /\ unsafePc = [t \in Calls |-> "idle"]
    /\ current = [t \in Calls |-> 0]
    /\ timers = <<>>
    /\ returned = [t \in Calls |-> 0]
    /\ doneAtStart = [t \in Calls |-> {}]
    /\ requests = EmptyMap
    /\ now = 0
    /\ admitted = [u \in Users |-> <<>>]
    /\ lastCall = NoRateLimitCall
    /\ clients = {}
    /\ messages = <<>>
    /\ chatPosts = 0
    /\ fetch = [who \in Callers |-> NoFetch]
    /\ userData = NoUserData
    /\ boundary = NoBoundary
    /\ executes = [c \in ExecuteCalls |-> NoExecute]
    /\ batches = NoBatches

\* One store at a time, with all the inputs of its methods.  (The counter's
\* methods take no input: Spec below has all of its behaviours.)
SpecCache == Init /\ [][NextCache]_vars
SpecInventory == Init /\ [][NextInventory]_vars
SpecOperation == Init /\ [][NextOperation]_vars
\* The wrapper with operations that may call execute() again.
SpecReentrant == Init /\ [][NextReentrant]_vars

\* The continuation of call t: what the event loop runs once t holds the lock.
Continue(t) ==
    \/ CounterIncrementBody(t)
    \/ CounterGetValueBody(t)
    \/ CacheSetBody(t)
    \/ CacheGetBody(t)
    \/ CacheDeleteBody(t)
    \/ InitializeProductBody(t)
    \/ ReserveStockBody(t)
    \/ GetStockBody(t)
    \/ ExecuteStep(t)

\* The four stores side by side, one instance of each, every method with one
\* representative input.
Next ==
    \E t \in Calls :
        \/ CounterIncrementCall(t)
        \/ CounterGetValueCall(t)
        \/ CacheSetCall(t, "key1", "value1")
        \/ CacheGetCall(t, "key1")
        \/ CacheDeleteCall(t, "key1")
        \/ InitializeProductCall(t, "PROD-1", MaxStock)
        \/ ReserveStockCall(t, "PROD-1", MaxQty)
        \/ GetStockCall(t, "PROD-1")
        \/ \E i \in DOMAIN Programs : ExecuteCall(t, i)
        \/ Continue(t)

Spec == Init /\ [][Next]_vars

\* The two stores whose critical sections can end in an error.
NextFailing ==
    \E t \in Calls :
        \/ InitializeProductCall(t, "PROD-1", MaxStock)
        \/ ReserveStockCall(t, "PROD-1", MaxQty)
        \/ \E i \in DOMAIN Programs : ExecuteCall(t, i)
        \/ InitializeProductBody(t)
        \/ ReserveStockBody(t)
        \/ ExecuteStep(t)

\* The event loop runs every continuation that is ready, and the promises the
\* operations await settle.
FairSpec ==
    Init /\ [][NextFailing]_vars /\ \A t \in Calls : WF_vars(Continue(t))

\* The counter and the operation wrapper: calls that return at once next to
\* operations that hold the lock across suspensions.
NextQueue ==
    \E t \in Calls :
        \/ CounterIncrementCall(t)
        \/ CounterGetValueCall(t)
        \/ \E i \in DOMAIN Programs : ExecuteCall(t, i)
        \/ CounterIncrementBody(t)
        \/ CounterGetValueBody(t)
        \/ ExecuteStep(t)

FairQueueSpec ==
    Init /\ [][NextQueue]_vars /\ \A t \in Calls : WF_vars(Continue(t))

\* `counter` and `inventory` are ordinary properties of their instances (set
\* with `this.counter = 0`, `this.inventory = new Map()`), so any code that has
\* the instance can assign or mutate them; the cache's `#cache` is a private
\* field, which no code outside the class body can name.
FieldWriteCounter(v) ==
    /\ v # counter
    /\ counter' = v
    /\ UNCHANGED <<pc, call, result, mutex, cache, inventory, shared, opPos,
                   opBefore, history, overlapped, served, doneAtIssue,
                   outsideStores>>

FieldWriteInventory(p, v) ==
    /\ CurrentStock(inventory, p) # v
    /\ inventory' = MapSet(inventory, p, v)
    /\ UNCHANGED <<pc, call, result, mutex, counter, cache, shared, opPos,
                   opBefore, history, overlapped, served, doneAtIssue,
                   outsideStores>>

\* The three stores in the hands of code that also uses their public fields.
NextExposed ==
    \/ \E t \in Calls :
          \/ CounterIncrementCall(t)
          \/ CounterIncrementBody(t)
          \/ CacheSetCall(t, "key1", "value1")
          \/ CacheSetBody(t)
          \/ ReserveStockCall(t, "PROD-1", MaxQty)
          \/ ReserveStockBody(t)
    \/ \E v \in InitialStocks : FieldWriteCounter(v)
    \/ \E v \in InitialStocks : FieldWriteInventory("PROD-1", v)

SpecExposed == Init /\ [][NextExposed]_vars

\* The two counters that use no lock: the worker-thread counter and the
\* unguarded unsafeIncrement.
NextLockFree == NextWorker \/ NextUnsafe

SpecLockFree == Init /\ [][NextLockFree]_vars

SpecRateLimit == Init /\ [][NextRateLimit]_vars

SpecChat == Init /\ [][NextChat]_vars

SpecUserData == Init /\ [][NextUserData]_vars

SpecBoundary == Init /\ [][NextBoundary]_vars

SpecBatches == Init /\ [][NextBatches]_vars
\* The event loop runs every continuation that is ready, and every timer
\* that was set expires.
FairBatches ==
    /\ SpecBatches
    /\ WF_vars(BatchLoop)
    /\ WF_vars(ProcessUserResumes)
    /\ WF_vars(BatchResumes)

\* ================================================================ claims

IsCall(t, s, op) == call[t].store = s /\ call[t].op = op
Increments == {t \in Calls : IsCall(t, "counter", "increment")}
DoneIncrements == {t \in Increments : pc[t] = "done"}
HoldersOf(s) == {t \in Calls : pc[t] = "holding" /\ call[t].store = s}

\* C1: once all the N increment() calls issued on a counter that started at 0
\* have completed, the counter is exactly N, however the calls interleaved.
C1_NoLostUpdate ==
    (\A t \in Increments : pc[t] = "done") => counter = Cardinality(Increments)

\* Three increments, some of them in flight at the same time, have all completed.
C1_Witness ==
    /\ Cardinality(DoneIncrements) >= 3
    /\ Increments = DoneIncrements
    /\ overlapped
    /\ counter = Cardinality(Increments)

\* C2: no store's lock ever has two holders: at most one call is between its
\* resolved acquire() and its release().
C2_MutualExclusion == \A s \in Stores : Cardinality(HoldersOf(s)) <= 1

\* A call holds a store's lock while another call queues for it.
C2_Witness ==
    \E s \in Stores : Cardinality(HoldersOf(s)) = 1 /\ mutex[s].queue # <<>>

\* C3: with products initialized with non-negative stock, no product's stock
\* is ever negative.
C3_StockNeverNegative == \A p \in DOMAIN inventory : inventory[p] >= 0

\* A product was sold out by concurrent reservations, one of which was refused.
C3_Witness ==
    \E p \in DOMAIN inventory :
        /\ inventory[p] = 0
        /\ initStock[p] > 0
        /\ \E i, j \in DOMAIN ledger[p] : ledger[p][i][2] /\ ~ledger[p][j][2]
        /\ overlapped

\* Sum of the quantities of the reservations in ledger l that succeeded.
RECURSIVE SumReserved(_)
SumReserved(l) ==
    IF l = <<>> THEN 0
    ELSE (IF Head(l)[2] THEN Head(l)[1] ELSE 0) + SumReserved(Tail(l))

InventoryQuiet == \A t \in Calls : call[t].store = "inventory" => pc[t] = "done"

\* C4: for a product initialized with stock S, the quantities of the
\* reserveStock calls that succeeded sum to at most S, and once all calls have
\* completed the stock is S minus that sum.
C4_NeverOversold ==
    \A p \in Products :
        /\ SumReserved(ledger[p]) <= initStock[p]
        /\ InventoryQuiet =>
               CurrentStock(inventory, p) = initStock[p] - SumReserved(ledger[p])

\* After initialization with 3, two concurrent reservations completed, one
\* with success and one refused.
C4_Witness ==
    \E p \in Products :
        /\ initStock[p] = 3
        /\ Len(ledger[p]) = 2
        /\ \E i, j \in DOMAIN ledger[p] : ledger[p][i][2] /\ ~ledger[p][j][2]
        /\ InventoryQuiet
        /\ overlapped

RejectedCalls(s) ==
    {u \in Calls : call[u].store = s /\ result[u].status = "rejected"}

\* C5: a critical section that ends in an error releases the lock (the lock is
\* then free or held by another call inside its critical section), and every
\* call in flight on that store from then on completes.
C5_NoDeadlockAfterFailure ==
    /\ [](\A s \in Stores :
            RejectedCalls(s) # {} /\ mutex[s].locked => HoldersOf(s) # {})
    /\ \A t \in Calls :
         (pc[t] \in {"waiting", "holding"} /\ RejectedCalls(call[t].store) # {})
             ~> (pc[t] = "done")

\* An execute() whose operation threw, and a later execute() on the same
\* instance that completed with a result.
C5_Witness ==
    \E u, t \in Calls :
        /\ u < t
        /\ IsCall(u, "operation", "execute") /\ result[u].status = "rejected"
        /\ IsCall(t, "operation", "execute") /\ result[t].status = "fulfilled"

\* C6: the values returned by completed increment() calls are pairwise
\* distinct and are exactly 1..k for k completed calls, in every state: so the
\* N calls issued when the value is c return exactly c+1..c+N.
C6_DistinctReturns ==
    /\ \A t, u \in DoneIncrements :
           t # u => result[t].value # result[u].value
    /\ {result[t].value : t \in DoneIncrements} = 1..Cardinality(DoneIncrements)

\* Three increments, some of them in flight at the same time, have returned.
C6_Witness ==
    /\ Cardinality(DoneIncrements) >= 3
    /\ overlapped
    /\ \E t \in DoneIncrements : result[t].value = 3

\* C7: reserveStock(p, q) succeeds exactly when q is at most the stock of p as
\* the call finds it under the lock and fails otherwise; with stock 3, of two
\* reservations of 2 exactly one succeeds and the stock ends at 1.
C7_SucceedsIffEnoughStock ==
    /\ [][\A t \in Calls :
            Holds(t, "inventory", "reserveStock") /\ pc'[t] = "done" =>
                IF call[t].val <= CurrentStock(inventory, call[t].key)
                THEN result'[t] = Fulfilled(TRUE)
                ELSE result'[t].status = "rejected"]_vars
    /\ [](\A p \in Products :
            initStock[p] = 3 /\ ledger[p] \in {<<<<2, TRUE>>, <<2, TRUE>>>>,
                                               <<<<2, TRUE>>, <<2, FALSE>>>>,
                                               <<<<2, FALSE>>, <<2, TRUE>>>>,
                                               <<<<2, FALSE>>, <<2, FALSE>>>>}
            => /\ ledger[p] = <<<<2, TRUE>>, <<2, FALSE>>>>
               /\ CurrentStock(inventory, p) = 1)

\* Stock 3, two concurrent reservations of 2, both completed.
C7_Witness ==
    \E p \in Products :
        /\ initStock[p] = 3
        /\ Len(ledger[p]) = 2
        /\ ledger[p][1][1] = 2 /\ ledger[p][2][1] = 2
        /\ CurrentStock(inventory, p) = 1
        /\ InventoryQuiet
        /\ overlapped

\* C8: a reserveStock call refused for insufficient stock leaves the inventory
\* map as it was: every product's stock and the set of known products.
C8_FailedReserveChangesNothing ==
    [][\A t \in Calls :
         Holds(t, "inventory", "reserveStock") /\ result'[t].status = "rejected"
             => inventory' = inventory]_vars

\* A reservation was refused while both products were known.
C8_Witness ==
    /\ \E t \in Calls :
           IsCall(t, "inventory", "reserveStock") /\ result[t].status = "rejected"
    /\ DOMAIN inventory = Products

\* C9 as claimed: when an operation run through execute() ends in an error,
\* the shared state is as it was before that operation began.
C9_RolledBack ==
    [][\A t \in Calls :
         Holds(t, "operation", "execute") /\ result'[t].status = "rejected"
             => shared' = opBefore'[t]]_vars

\* Number of writes among the first n instructions of program prog.
WritesIn(prog, n) == Cardinality({i \in 1..n : prog[i] = "write"})

\* C9 amended: when an operation run through execute() ends in an error, the
\* shared state is the state as it was when the operation began changed by
\* exactly the writes the operation itself made before failing (nothing is
\* rolled back, and no other call's write is interleaved).
C9_OnlyOwnWritesRemain ==
    [][\A t \in Calls :
         Holds(t, "operation", "execute") /\ result'[t].status = "rejected"
             => shared' = opBefore'[t] + WritesIn(Programs[call[t].val], opPos'[t])]_vars

\* An operation that wrote, suspended and then threw has failed while other
\* calls were in flight.
C9_Witness ==
    \E t \in Calls :
        /\ IsCall(t, "operation", "execute")
        /\ Programs[call[t].val] = <<"write", "await", "throw">>
        /\ result[t].status = "rejected"
        /\ shared = opBefore[t] + 1
        /\ overlapped

\* The operation of call t has thrown.
Threw(t) ==
    /\ IsCall(t, "operation", "execute")
    /\ pc[t] = "done"
    /\ Programs[call[t].val][opPos[t]] = "throw"

\* C10: when the operation passed to execute() fails with error e, the call is
\* rejected with e itself, and the mutex has been released by then: it is free
\* or held by another call.
C10_ErrorPropagated ==
    \A t \in Calls :
        Threw(t) =>
            /\ result[t] = Rejected(ErrorOf(t))
            /\ mutex["operation"].locked => HoldersOf("operation") # {}

\* An operation threw after a suspension, with another call queued behind it.
C10_Witness ==
    \E t \in Calls :
        /\ Threw(t)
        /\ opPos[t] = 3
        /\ result[t].status = "rejected"
        /\ \E u \in Calls : u # t /\ IsCall(u, "operation", "execute")
                                  /\ pc[u] \in {"holding", "done"}

\* The sequential specification of the stores: the state and the result one
\* operation c gives when it runs alone on state st = [counter, cache, inventory].
SeqStock(st, p) == IF p \in DOMAIN st.inventory THEN st.inventory[p] ELSE 0
SeqStep(st, c) ==
    CASE c.op = "increment" ->
           [st |-> [st EXCEPT !.counter = @ + 1],
            res |-> Fulfilled(st.counter + 1)]
      [] c.op = "getValue" ->
           [st |-> st, res |-> Fulfilled(st.counter)]
      [] c.op = "set" ->
           [st |-> [st EXCEPT !.cache =
                      [k \in DOMAIN @ \cup {c.key} |->
                          IF k = c.key THEN c.val ELSE @[k]]],
            res |-> Fulfilled(Undefined)]
      [] c.op = "get" ->
           [st |-> st,
            res |-> Fulfilled(IF c.key \in DOMAIN st.cache
                              THEN st.cache[c.key] ELSE Undefined)]
      [] c.op = "delete" ->
           [st |-> [st EXCEPT !.cache = [k \in DOMAIN @ \ {c.key} |-> @[k]]],
            res |-> Fulfilled(c.key \in DOMAIN st.cache)]
      [] c.op = "initializeProduct" ->
           [st |-> [st EXCEPT !.inventory =
                      [k \in DOMAIN @ \cup {c.key} |->
                          IF k = c.key THEN c.val ELSE @[k]]],
            res |-> Fulfilled(Undefined)]
      [] c.op = "reserveStock" ->
           IF c.val > SeqStock(st, c.key)
           THEN [st |-> st, res |-> Rejected(InsufficientStockError)]
           ELSE [st |-> [st EXCEPT !.inventory =
                           [k \in DOMAIN @ \cup {c.key} |->
                               IF k = c.key THEN SeqStock(st, c.key) - c.val
                               ELSE @[k]]],
                 res |-> Fulfilled(TRUE)]
      [] c.op = "getStock" ->
           [st |-> st, res |-> Fulfilled(SeqStock(st, c.key))]

\* Runs the calls of `order` one after the other from st; ok tells whether
\* each call's recorded result is the one the sequential specification gives.
RECURSIVE SeqRun(_, _)
SeqRun(st, order) ==
    IF order = <<>> THEN [st |-> st, ok |-> TRUE]
    ELSE LET step == SeqStep(st, call[Head(order)])
             rest == SeqRun(step.st, Tail(order))
         IN  [st |-> rest.st,
              ok |-> rest.ok /\ result[Head(order)] = step.res]

SeqInit == [counter |-> 0, cache |-> EmptyMap, inventory |-> EmptyMap]
GuardedStores == {"counter", "cache", "inventory"}
DoneOn(s) == {t \in Calls : call[t].store = s /\ pc[t] = "done"}

\* C11: the executions of each store are linearizable: the order in which the
\* calls released the lock (their acquire/release intervals do not overlap, so
\* this is their real-time order) is a total order of the completed calls in
\* which every call returned what the sequential specification returns, and
\* which leaves the store in the state the sequential specification reaches.
C11_Linearizable ==
    \A s \in GuardedStores :
        LET run == SeqRun(SeqInit, served[s])
        IN  /\ {served[s][i] : i \in DOMAIN served[s]} = DoneOn(s)
            /\ Len(served[s]) = Cardinality(DoneOn(s))
            /\ run.ok
            /\ s = "counter" => run.st.counter = counter
            /\ s = "cache" => run.st.cache = cache
            /\ s = "inventory" => run.st.inventory = inventory

\* Three calls on the inventory, in flight at the same time, have completed: an
\* initialization, a reservation that succeeded and one that was refused.
C11_Witness ==
    /\ Len(served["inventory"]) = 3
    /\ overlapped
    /\ \E t, u \in Calls :
          /\ IsCall(t, "inventory", "reserveStock")
          /\ IsCall(u, "inventory", "reserveStock")
          /\ result[t].status = "fulfilled"
          /\ result[u].status = "rejected"

Accessed(s) ==
    \/ s = "counter" /\ counter' # counter
    \/ s = "cache" /\ cache' # cache
    \/ s = "inventory" /\ inventory' # inventory
    \/ \E t \in Calls : call[t].store = s /\ result'[t] # result[t]

\* C13: every step in which a store method reads out or writes the guarded
\* state of its store is taken by the one call that holds that store's lock.
C13_AccessOnlyUnderLock ==
    [][\A s \in GuardedStores :
         Accessed(s) =>
             \E t \in Calls :
                 /\ HoldersOf(s) = {t}
                 /\ mutex[s].locked
                 /\ pc'[t] = "done"
                 /\ \A u \in Calls \ {t} : result'[u] = result[u]]_vars

\* A call has written the inventory and another has read it, while a third
\* call holds the lock.
C13_Witness ==
    /\ inventory # EmptyMap
    /\ \E t, u \in Calls :
          /\ IsCall(t, "inventory", "getStock") /\ pc[t] = "done"
          /\ result[t].value > 0
          /\ pc[u] = "holding" /\ call[u].store = "inventory"

\* C14: the guarded state of a store changes only in a step of a call that
\* holds the store's lock: nothing outside the store's methods can reach it.
C14_OnlyThroughLock ==
    [][\A s \in GuardedStores :
         (\/ s = "counter" /\ counter' # counter
          \/ s = "cache" /\ cache' # cache
          \/ s = "inventory" /\ inventory' # inventory)
         => \E t \in Calls : HoldersOf(s) = {t} /\ pc'[t] = "done"]_vars

IsRead(c) == c.op \in {"getValue", "get", "getStock"}

\* C15: getValue, get and getStock take the store's lock before they read and
\* release it afterwards: a read issued while the lock is held waits, leaves
\* the queue only when the holder releases, returns only from its own critical
\* section, and leaves the lock free or handed to the next waiter.
C15_ReadsTakeTheLock ==
    [][\A t \in Calls :
         LET s == call'[t].store
         IN  /\ (pc[t] = "idle" /\ pc'[t] # "idle" /\ IsRead(call'[t])) =>
                    /\ mutex'[s].locked
                    /\ pc'[t] = IF mutex[s].locked THEN "waiting" ELSE "holding"
             /\ (pc[t] = "waiting" /\ pc'[t] # "waiting" /\ IsRead(call[t])) =>
                    /\ pc'[t] = "holding"
                    /\ \E u \in Calls :
                          pc[u] = "holding" /\ call[u].store = s /\ pc'[u] = "done"
             /\ (pc[t] # "done" /\ pc'[t] = "done" /\ IsRead(call[t])) =>
                    /\ pc[t] = "holding"
                    /\ HoldersOf(s) = {t}
                    /\ mutex'[s].locked = (mutex[s].queue # <<>>)]_vars

\* A getStock call waits in the queue while another call holds the lock.
C15_Witness ==
    \E t, u \in Calls :
        /\ IsCall(t, "inventory", "getStock") /\ pc[t] = "waiting"
        /\ pc[u] = "holding" /\ call[u].store = "inventory"
        /\ result[t] = Pending

OnGuardedStore(t) == call[t].store \in GuardedStores

\* C16 as claimed: while a call holds the lock of a counter, cache or
\* inventory, no other call on that store takes a step (other calls move only
\* as the holder releases).
C16_NoOtherTaskRuns ==
    [][\A t \in Calls :
         (pc[t] = "holding" /\ OnGuardedStore(t)) =>
             \A u \in Calls \ {t} :
                 call'[u].store = call[t].store =>
                     pc'[u] = pc[u] \/ pc'[t] = "done"]_vars

\* C16 amended: the only suspension point of a counter, cache or inventory
\* method is the wait to acquire the lock; once that await resumes, the call
\* runs its critical section through release() in one uninterrupted step.
\* Until then (between the grant of the lock and the resumption) other calls
\* can be issued and queue, and the holder has touched nothing.
C16_CriticalSectionIsOneStep ==
    [][\A t \in Calls :
         (pc[t] = "holding" /\ OnGuardedStore(t)) =>
             \/ pc'[t] = "done"
             \/ /\ pc'[t] = "holding"
                /\ result'[t] = result[t]
                /\ call[t].store = "counter" => counter' = counter
                /\ call[t].store = "cache" => cache' = cache
                /\ call[t].store = "inventory" => inventory' = inventory]_vars

\* An increment ran its critical section in one step and handed the lock to a
\* call that had been issued while the increment held it.
C16_Witness ==
    \E t, u \in Calls :
        /\ IsCall(t, "counter", "increment") /\ pc[t] = "done"
        /\ counter = 1
        /\ t < u /\ call[u].store = "counter" /\ pc[u] = "holding"
        /\ served["counter"] = <<t>>

\* The calls that write key k of the cache (set or delete), issued so far.
CacheWriters(k) ==
    {t \in Calls : /\ call[t].store = "cache" /\ call[t].key = k
                   /\ call[t].op \in {"set", "delete"}}

\* set(k, v1) by s1 had completed when get(k) by g and set(k, v2) by s2 were
\* issued, g and s2 were in flight together, and nothing else writes k.
SetThenConcurrentGetSet(s1, g, s2) ==
    /\ IsCall(s1, "cache", "set") /\ IsCall(s2, "cache", "set")
    /\ IsCall(g, "cache", "get")
    /\ call[s1].key = call[g].key /\ call[s2].key = call[g].key
    /\ s1 \in doneAtIssue[g] /\ s1 \in doneAtIssue[s2]
    /\ s2 \notin doneAtIssue[g] /\ g \notin doneAtIssue[s2]
    /\ CacheWriters(call[g].key) = {s1, s2}

\* C17: after set(k, v1) has completed, a get(k) issued concurrently with
\* set(k, v2) returns v1 or v2 and nothing else, and once both have completed
\* the cache holds v2 for k.
C17_OldOrNewValue ==
    \A s1, g, s2 \in Calls :
        SetThenConcurrentGetSet(s1, g, s2) =>
            /\ pc[g] = "done" =>
                   result[g] \in {Fulfilled(call[s1].val),
                                  Fulfilled(call[s2].val)}
            /\ (pc[g] = "done" /\ pc[s2] = "done") =>
                   /\ call[g].key \in DOMAIN cache
                   /\ cache[call[g].key] = call[s2].val

\* Both outcomes of the scenario have happened with two different values: the
\* get returned the new value, and the cache ended with the new value.
C17_Witness ==
    \E s1, g, s2 \in Calls :
        /\ SetThenConcurrentGetSet(s1, g, s2)
        /\ call[s1].val = "value1" /\ call[s2].val = "value2"
        /\ pc[g] = "done" /\ pc[s2] = "done"
        /\ result[g] = Fulfilled("value2")
        /\ cache[call[g].key] = "value2"

\* C18: get on an absent key returns a not-found result that get returns for
\* no present key, whatever value was stored: a get settles to the not-found
\* result (undefined in the code) exactly when the key is absent.
C18_AbsentIsDistinguishable ==
    [][\A t \in Calls :
         (Holds(t, "cache", "get") /\ pc'[t] = "done") =>
             (result'[t] = Fulfilled(Undefined)
                  <=> call[t].key \notin DOMAIN cache)]_vars

\* C19: getStock of a product that was never initialized does not settle to a
\* stock level, which is what getStock of an initialized product settles to
\* (0 included).
C19_AbsentProductIsNotAStock ==
    [][\A t \in Calls :
         (/\ Holds(t, "inventory", "getStock") /\ pc'[t] = "done"
          /\ call[t].key \notin DOMAIN inventory) =>
             ~(result'[t].status = "fulfilled" /\ result'[t].value \in Nat)]_vars

\* C20: a reserveStock rejected for insufficient stock is rejected with an
\* error of the dedicated kind InsufficientStockError.
C20_DedicatedErrorKind ==
    \A t \in Calls :
        (/\ IsCall(t, "inventory", "reserveStock") /\ pc[t] = "done"
         /\ result[t].status = "rejected") =>
            result[t].error.name = "InsufficientStockError"

UpTo(n) == [i \in 1..n |-> i]

\* C21: the worker handles the INCREMENT messages one at a time, in order: no
\* message is lost, the counts posted back are 1, 2, ... in that order, and
\* once nothing is in flight the main thread has received exactly 1..N for
\* the N increment() calls made.
C21_WorkerCountsInOrder ==
    /\ safeCounter + Len(inbox) = posted
    /\ logged \o outbox = UpTo(safeCounter)
    /\ (inbox = <<>> /\ outbox = <<>>) => logged = UpTo(posted)

\* All the increment() calls were made before the worker handled the first
\* message, and every count has arrived.
C21_Witness ==
    /\ posted = MaxCalls /\ MaxCalls >= 2
    /\ inbox = <<>> /\ outbox = <<>>
    /\ logged = UpTo(MaxCalls)

\* The unsafeIncrement calls of K were all started before any of them finished.
StartedTogether(K) ==
    /\ \A t \in K : unsafePc[t] # "idle"
    /\ \A t, u \in K : u \notin doneAtStart[t]

\* No call outside K has finished since the first call of K started.
NoneFinishedBetween(K) ==
    \A u \in Calls \ K :
        unsafePc[u] = "done" => \A t \in K : u \in doneAtStart[t]

ServedCache(i) == call[served["cache"][i]]
WritesTo(k, n) ==
    {i \in 1..n : ServedCache(i).key = k /\ ServedCache(i).op \in {"set", "delete"}}
LatestWrite(k, n) ==
    IF WritesTo(k, n) = {} THEN NoCall
    ELSE ServedCache(CHOOSE i \in WritesTo(k, n) : \A j \in WritesTo(k, n) : j <= i)
PresentAfter(k, n) == LatestWrite(k, n).op = "set"

\* C22: the cache is a mapping.  After any sequence of completed operations
\* key k is present exactly when the latest completed write of k is a set, and
\* then holds that set's value (so a write of k changes no other key); get(k)
\* returns the value of the latest set(k, v) completed before it and not
\* followed by a delete(k), undefined if there is none; delete(k) returns true
\* exactly when k was present.
C22_MappingSemantics ==
    LET n == Len(served["cache"])
    IN  /\ \A k \in Keys :
               /\ k \in DOMAIN cache <=> PresentAfter(k, n)
               /\ k \in DOMAIN cache => cache[k] = LatestWrite(k, n).val
        /\ \A i \in 1..n :
               LET t == served["cache"][i]
                   k == call[t].key
               IN  /\ call[t].op = "get" =>
                          result[t] = Fulfilled(IF PresentAfter(k, i - 1)
                                                THEN LatestWrite(k, i - 1).val
                                                ELSE Undefined)
                   /\ call[t].op = "delete" =>
                          result[t] = Fulfilled(PresentAfter(k, i - 1))

\* set(k, v), delete(k), get(k) were served in this order: the delete returned
\* true, the get found nothing, and k is absent.
C22_Witness ==
    /\ Len(served["cache"]) = 3
    /\ ServedCache(1).op = "set" /\ ServedCache(1).val = "value1"
    /\ ServedCache(2).op = "delete" /\ ServedCache(3).op = "get"
    /\ ServedCache(1).key = ServedCache(2).key
    /\ ServedCache(2).key = ServedCache(3).key
    /\ result[served["cache"][2]] = Fulfilled(TRUE)
    /\ result[served["cache"][3]] = Fulfilled(Undefined)
    /\ ServedCache(1).key \notin DOMAIN cache

\* C23: once the operation of call t has called execute() on its own instance
\* and awaits it, nothing completes any more: t keeps the lock and stays
\* suspended, the inner call stays queued, and so does every execute() call
\* issued at any time after t took the lock.
C23_ReentryNeverCompletes ==
    \A t \in Calls :
        awaiting[t] # 0 =>
            /\ pc[t] = "holding" /\ result[t] = Pending
            /\ pc[awaiting[t]] = "waiting" /\ result[awaiting[t]] = Pending
            /\ \A u \in Calls :
                   (u > t /\ pc[u] # "idle") =>
                       pc[u] = "waiting" /\ result[u] = Pending

\* A call re-entered execute(), a later call queued behind the inner call,
\* and no step is possible any more.
C23_Witness ==
    \E t, u \in Calls :
        /\ awaiting[t] # 0 /\ u > awaiting[t]
        /\ mutex["operation"].queue = <<awaiting[t], u>>
        /\ ~ENABLED NextReentrant

\* The operation of call t has begun and its promise has not settled yet
\* (it is running or suspended on an await).
OperationUnderWay(t) ==
    /\ IsCall(t, "operation", "execute")
    /\ opPos[t] > 0 /\ pc[t] # "done"

\* C24: execute holds the mutex from before the operation starts until its
\* promise has settled: an operation under way holds the locked mutex, also
\* while it is suspended, and no two operations are under way at once.
C24_OperationsNeverOverlap ==
    \A t \in Calls :
        OperationUnderWay(t) =>
            /\ pc[t] = "holding" /\ mutex["operation"].locked
            /\ \A u \in Calls \ {t} : ~OperationUnderWay(u)

\* An operation is suspended on its await while another execute() call waits
\* for the lock, its operation not begun.
C24_Witness ==
    \E t, u \in Calls :
        /\ OperationUnderWay(t)
        /\ Programs[call[t].val][opPos[t]] = "await"
        /\ IsCall(u, "operation", "execute")
        /\ pc[u] = "waiting" /\ opPos[u] = 0

\* C26: a successful reserveStock(p, q) lowers the stock of p by exactly q, and
\* no reserveStock call raises the stock of any product, whatever integer q is.
C26_ReserveNeverRaisesStock ==
    [][\A t \in Calls :
         (Holds(t, "inventory", "reserveStock") /\ pc'[t] = "done") =>
             /\ result'[t].status = "fulfilled" =>
                    CurrentStock(inventory', call[t].key)
                        = CurrentStock(inventory, call[t].key) - call[t].val
             /\ \A p \in Products :
                    CurrentStock(inventory', p) <= CurrentStock(inventory, p)]_vars

\* C27: initializeProduct(p, _) and reserveStock(p, _) leave every other
\* product as it was (present or not, and its stock), whether they succeed or
\* fail; a failed reserveStock and getStock change nothing at all.
C27_OtherProductsUntouched ==
    [][\A t \in Calls :
         (pc[t] = "holding" /\ call[t].store = "inventory" /\ pc'[t] = "done") =>
             /\ \A p \in Products \ {call[t].key} :
                    /\ p \in DOMAIN inventory' <=> p \in DOMAIN inventory
                    /\ CurrentStock(inventory', p) = CurrentStock(inventory, p)
             /\ call[t].op = "getStock" => inventory' = inventory
             /\ result'[t].status = "rejected" => inventory' = inventory]_vars

\* With two products in stock, a reservation on one has succeeded and the
\* other still has the stock it was initialized with.
C27_Witness ==
    \E t \in Calls, p \in Products :
        /\ IsCall(t, "inventory", "reserveStock") /\ result[t] = Fulfilled(TRUE)
        /\ p # call[t].key /\ p \in DOMAIN inventory
        /\ inventory[p] = initStock[p] /\ inventory[p] > 0
        /\ call[t].val > 0
        /\ inventory[call[t].key] = initStock[call[t].key] - call[t].val

\* C28: locks are per instance: a call waits only while a call on its own
\* store holds that store's lock, never because of a holder on another store.
C28_LocksArePerInstance ==
    \A t \in Calls :
        pc[t] = "waiting" =>
            /\ mutex[call[t].store].locked
            /\ \E u \in Calls \ {t} :
                   pc[u] = "holding" /\ call[u].store = call[t].store

\* Calls on two different stores are inside their critical sections at once,
\* the second having been issued while the first held its lock.
C28_Witness ==
    \E t, u \in Calls :
        /\ t < u /\ pc[t] = "holding" /\ pc[u] = "holding"
        /\ call[t].store # call[u].store
        /\ mutex[call[t].store].locked /\ mutex[call[u].store].locked

\* Number of the times in seq that are less than Window ms before time n.
YoungerThanWindow(seq, n) ==
    Cardinality({i \in 1..Len(seq) : n - seq[i] < Window})

\* C29: with a non-decreasing clock, a rateLimit call returns true exactly
\* when fewer than `limit` of the user's previously admitted requests are less
\* than 3,600,000 ms old (so the first call for a new user returns true when
\* limit >= 1); and while every call passes the same limit, no user has more
\* than `limit` admitted requests in any window of 3,600,000 ms.
C29_AtMostLimitPerWindow ==
    [][lastCall' # lastCall =>
         LET c == lastCall'
             earlier == admitted[c.userId]
         IN  /\ c.returns <=> YoungerThanWindow(earlier, c.at) < c.limit
             /\ (c.userId \notin DOMAIN requests /\ c.limit >= 1) => c.returns
             /\ Cardinality(c.limits) = 1 =>
                    \A u \in Users : \A i \in 1..Len(admitted'[u]) :
                        Cardinality({j \in 1..i :
                            admitted'[u][i] - admitted'[u][j] < Window})
                                <= c.limit]_vars

\* With limit 1 a user was admitted at time 0 and admitted again by a later
\* call made when that request was exactly 3,600,000 ms old.
C29_Witness ==
    \E u \in Users :
        /\ lastCall.userId = u /\ lastCall.returns /\ lastCall.limits = {1}
        /\ lastCall.nth >= 3
        /\ admitted[u] = <<0, Window>>
        /\ requests[u] = <<Window>>

\* C30: a rateLimit call that returns false changes no user's stored history,
\* a call for one user leaves every other user's history as it was, and what
\* a call returns depends on the history of its own user only.
C30_OtherUsersUntouched ==
    [][lastCall' # lastCall =>
         LET c == lastCall'
         IN  /\ ~c.returns => requests' = requests /\ admitted' = admitted
             /\ \A v \in Users \ {c.userId} :
                    /\ v \in DOMAIN requests' <=> v \in DOMAIN requests
                    /\ UserRequests(requests', v) = UserRequests(requests, v)
                    /\ admitted'[v] = admitted[v]
             /\ c.returns <=>
                    YoungerThanWindow(UserRequests(requests, c.userId), c.at)
                        < c.limit]_vars

\* A call was refused while its user's stored history held a request older
\* than the window, and another user has a history of their own.
C30_Witness ==
    \E u, v \in Users :
        /\ u # v /\ lastCall.userId = u /\ ~lastCall.returns
        /\ lastCall.limit >= 1
        /\ \E i \in 1..Len(requests[u]) : lastCall.at - requests[u][i] >= Window
        /\ v \in DOMAIN requests /\ requests[v] # <<>>

\* C31: after any sequence of POST /chat/message requests the list holds at
\* most 100 messages, and they are the most recently posted ones (all of them
\* while at most 100 were posted) in posting order.
C31_LastHundredMessages ==
    LET n == IF chatPosts < MessageCap THEN chatPosts ELSE MessageCap
    IN  /\ Len(messages) <= 100
        /\ messages = [i \in 1..n |-> chatPosts - n + i]

\* More than 100 messages were posted: the list is full and begins with the
\* message posted 99 posts before the last.
C31_Witness ==
    /\ chatPosts > MessageCap + 1
    /\ Len(messages) = MessageCap
    /\ messages[1] = chatPosts - 99
    /\ messages[MessageCap] = chatPosts

\* C32: fetchPreferencesWithRetry calls Preferences.findByUserId at most
\* maxRetries + 1 times; it makes a further attempt only after a failed one,
\* returns the result of the first attempt that succeeds, and when all
\* maxRetries + 1 attempts have failed throws a UserDataError with code
\* PREFERENCES_ERROR carrying the error of the last attempt.
C32_RetryThenGiveUp ==
    \A who \in Callers :
        LET f == fetch[who]
            n == Len(f.attempts)
        IN  /\ f.calls <= f.maxRetries + 1
            /\ f.calls = n + (IF f.pc = "lookup" THEN 1 ELSE 0)
            /\ \A i \in 1..n : f.attempts[i] => (i = n /\ f.pc = "done")
            /\ f.pc = "done" =>
                   IF f.attempts[n]
                   THEN f.outcome = Fulfilled(StoredPreferences)
                   ELSE /\ n = f.maxRetries + 1
                        /\ f.outcome =
                             Rejected(UserDataError("PREFERENCES_ERROR",
                                          LookupError("Preferences", n)))

\* A call with maxRetries = MaxRetries gave up after MaxRetries + 1 failed
\* attempts, and the call made by getUserData succeeded on its last attempt.
C32_Witness ==
    /\ fetch["direct"].pc = "done"
    /\ fetch["direct"].maxRetries = MaxRetries
    /\ fetch["direct"].calls = MaxRetries + 1
    /\ fetch["direct"].outcome.status = "rejected"
    /\ fetch["getUserData"].attempts = <<FALSE, FALSE, TRUE>>
    /\ fetch["getUserData"].outcome.status = "fulfilled"

HasSuccessFlag(outcome) ==
    /\ outcome.status = "fulfilled"
    /\ "value" \in DOMAIN outcome
    /\ "success" \in DOMAIN outcome.value

C34_FailureGivesResultOrThrows ==
    \A c \in ExecuteCalls :
        LET e == executes[c]
        IN (e.pc = "done" /\ e.tries # <<>> /\ ~e.tries[1])
               => \/ HasSuccessFlag(e.outcome)
                  \/ e.outcome.status = "rejected"

\* C35: under the 'retry' strategy one execute call invokes the operation at
\* most 4 times, stops at the first success and returns {success: true} for
\* it, and throws only after 4 failed invocations.
C35_RetryStrategy ==
    boundary.fallbackStrategy = "retry" =>
        \A c \in ExecuteCalls :
            LET e == executes[c]
            IN /\ e.invoked <= 1 + BoundaryRetries
               /\ \A n \in 1..Len(e.tries) :
                     e.tries[n] =>
                        /\ n = Len(e.tries)
                        /\ e.invoked = n
                        /\ e.pc = "done"
                        /\ e.outcome.status = "fulfilled"
                        /\ e.outcome.value.success
               /\ (e.pc = "done" /\ e.outcome.status = "rejected") =>
                     /\ e.invoked = 1 + BoundaryRetries
                     /\ Len(e.tries) = 1 + BoundaryRetries
                     /\ \A n \in 1..Len(e.tries) : ~e.tries[n]

\* A call that failed three times and succeeded on its fourth invocation,
\* beside a call that failed four times.
C35_Witness ==
    /\ boundary.fallbackStrategy = "retry"
    /\ \E c, d \in ExecuteCalls :
          /\ executes[c].pc = "done"
          /\ executes[c].tries = <<FALSE, FALSE, FALSE, TRUE>>
          /\ executes[c].outcome.status = "fulfilled"
          /\ executes[d].pc = "done"
          /\ executes[d].tries = <<FALSE, FALSE, FALSE, FALSE>>
          /\ executes[d].outcome.status = "rejected"

\* C36: the metrics of a boundary, under every interleaving of its execute
\* calls: 0 <= failures <= attempts, attempts counts the execute calls begun,
\* and lastFailure is null exactly when failures is 0.
C36_MetricsConsistent ==
    LET m == boundary.metrics
    IN /\ 0 <= m.failures
       /\ m.failures <= m.attempts
       /\ m.attempts = Cardinality({c \in ExecuteCalls :
                                       executes[c].pc # "idle"})
       /\ (m.lastFailure = "null") <=> (m.failures = 0)

\* Two calls in flight together, both failed at their first invocation, one of
\* them retried and failed again.
C36_Witness ==
    /\ boundary.metrics.attempts = 2
    /\ boundary.metrics.failures = 2
    /\ \E c, d \in ExecuteCalls :
          /\ c # d
          /\ executes[c].pc = "delay"
          /\ Len(executes[c].tries) >= 2
          /\ executes[d].pc = "retry"

\* C37: processUsersInBatches never has more than batchSize processUser calls
\* in flight at once, and makes no call of a batch before every call of the
\* previous batch has completed.
C37_AtMostBatchSizeInFlight ==
    /\ batches.timers # <<>> => Len(batches.timers) <= batches.batchSize
    /\ batches.pendingAtStart = <<>>

\* C38: a processUsersInBatches call terminates, and has then processed every
\* user of the list exactly once.
C38_TerminatesEveryUserOnce ==
    (batches.pc # "idle") ~>
        /\ batches.pc = "done"
        /\ \A k \in 1..batches.length :
              batches.begun[k] = 1 /\ batches.completed[k] = 1

====
